---- MODULE Spec2Model ----
(***************************************************************************)
(* A model of src/CIMMs.py.                                                *)
(*                                                                         *)
(* Three independent parts of the script carry behaviour:                  *)
(*   - class DatabaseConnection and the with-statement over it             *)
(*     (specification Spec),                                               *)
(*   - dangerous_default_argument / safe_default_argument                  *)
(*     (specification SpecArgs),                                           *)
(*   - lbyl_approach / eafp_approach (specification SpecLookup).           *)
(* The script is single-threaded: with-blocks overlap only by nesting,     *)
(* which the model keeps as a stack of active with-statements.  What       *)
(* print() writes is not part of the state.                                *)
(***************************************************************************)
EXTENDS Integers, Sequences, FiniteSets, TLC

VARIABLES
    conn,         \* the DatabaseConnection objects: ref -> [database_name, connected]
    hist,         \* per object: the last (at most two) connect/disconnect calls, oldest first
    stack,        \* the active with-statements, outermost first
    result,       \* how the most recently finished with-statement ended
    lastOp,       \* the connect/disconnect call the latest step made, if any
    lists,        \* the list objects of the argument demo: id -> contents
    known,        \* the list ids the caller holds (returned to it so far)
    ret,          \* what the latest dangerous_/safe_default_argument call returned
    dangerItems,  \* the items of the dangerous_default_argument calls made without target_list
    explicitUsed, \* whether some call passed target_list explicitly
    ncalls,       \* the number of calls of the argument demo so far
    data,         \* the dictionary of the lookup demo
    data0,        \* that dictionary as first built
    key,          \* the key looked up
    lbylRes,      \* the outcome of lbyl_approach(data, key)
    eafpRes       \* the outcome of eafp_approach(data, key)

connVars == <<conn, hist, stack, result, lastOp>>
argVars  == <<lists, known, ret, dangerItems, explicitUsed, ncalls>>
dictVars == <<data, data0, key, lbylRes, eafpRes>>
vars     == <<conn, hist, stack, result, lastOp,
              lists, known, ret, dangerItems, explicitUsed, ncalls,
              data, data0, key, lbylRes, eafpRes>>

(***************************************************************************)
(* Bounds.                                                                 *)
(***************************************************************************)
MaxDepth == 2     \* with-statements nested at once
MaxCalls == 3     \* calls of the argument demo in one run
MaxInt   == 2     \* the integers stored in the lookup demo's dictionary

Refs     == {"db", "manual"}              \* the DatabaseConnection objects
Names    == {"my_database", "manual_db"}  \* database_name values
Failures == {"ValueError", "KeyError"}    \* what a with-body may raise
Items    == {1, 2}                        \* the items appended
Keys     == {"a", "b", "z"}               \* dictionary keys (hashable)

(***************************************************************************)
(* class DatabaseConnection.  A method is an operator on the object store  *)
(* conn; it yields the store after the call, the value returned and the    *)
(* methods it called on self.                                              *)
(***************************************************************************)
DbInit(database_name) ==
    [database_name |-> database_name, connected |-> FALSE]

\* connect() that prints but leaves the flag as it was.
connect_stale(self) ==
    conn

\* connect() that sets the flag on every object, as a class attribute would.
connect_all(self) ==
    [r \in DOMAIN conn |-> [conn[r] EXCEPT !.connected = TRUE]]

connect(self) ==
    [conn EXCEPT ![self].connected = TRUE]

\* disconnect() that flips the flag instead of clearing it.
disconnect_toggle(self) ==
    [conn EXCEPT ![self].connected = ~@]

disconnect(self) ==
    [conn EXCEPT ![self].connected = FALSE]

\* __enter__ that returns self without connecting.
enter_noconnect(self) ==
    [heap |-> conn, ret |-> self, calls |-> <<>>]

\* __enter__ that connects self but returns another object.
enter_other(self) ==
    [heap |-> connect(self), ret |-> CHOOSE r \in DOMAIN conn : r # self,
     calls |-> <<"connect">>]

enter(self) ==
    [heap |-> connect(self), ret |-> self, calls |-> <<"connect">>]

\* __exit__ that disconnects only when the body ended normally.
exit_leak(self, exc) ==
    IF exc = "none"
    THEN [heap |-> disconnect(self), ret |-> FALSE, calls |-> <<"disconnect">>]
    ELSE [heap |-> conn, ret |-> FALSE, calls |-> <<>>]

\* __exit__ that never disconnects.
exit_keep(self, exc) ==
    [heap |-> conn, ret |-> FALSE, calls |-> <<>>]

\* __exit__ that returns True.
exit_suppress(self, exc) ==
    [heap |-> disconnect(self), ret |-> TRUE, calls |-> <<"disconnect">>]

exit(self, exc) ==
    [heap |-> disconnect(self), ret |-> FALSE, calls |-> <<"disconnect">>]

\* The calls on one object, newest last, cut to the last two.
Remember(h, op) ==
    IF Len(h) < 2 THEN Append(h, op) ELSE <<h[2], op>>

\* Every active with-statement over object r notes who last changed r.connected.
Mark(s, r, by) ==
    IF s = <<>> THEN <<>>
    ELSE [i \in 1..Len(s) |->
            IF s[i].res = r THEN [s[i] EXCEPT !.lostBy = by] ELSE s[i]]

Top == stack[Len(stack)]

\* Code runs at the top level of the script or in the innermost with-body.
CanRun == IF stack = <<>> THEN TRUE ELSE Top.phase = "body"

NoResult ==
    [kind |-> "none", exc |-> "none", bodyExc |-> "none", res |-> "db",
     handle |-> "db", seen |-> "unset", log |-> <<>>, active |-> FALSE]

NoOp == [op |-> "none", res |-> "db", via |-> "none"]

\* db.connect() called directly (src line 190).
CallConnect(r) ==
    /\ CanRun
    /\ conn' = connect(r)
    /\ hist' = [hist EXCEPT ![r] = Remember(@, "connect")]
    /\ stack' = Mark(stack, r, "none")
    /\ lastOp' = [op |-> "connect", res |-> r, via |-> "direct"]
    /\ UNCHANGED <<result, argVars, dictVars>>

\* db.disconnect() called directly (src line 193).
CallDisconnect(r) ==
    /\ CanRun
    /\ conn' = disconnect(r)
    /\ hist' = [hist EXCEPT ![r] = Remember(@, "disconnect")]
    /\ stack' = Mark(stack, r, "direct")
    /\ lastOp' = [op |-> "disconnect", res |-> r, via |-> "direct"]
    /\ UNCHANGED <<result, argVars, dictVars>>

\* `with <r> as db:` calls r.__enter__() and binds what it returns.
WithEnter(r) ==
    /\ CanRun
    /\ Len(stack) < MaxDepth
    /\ LET e == enter(r) IN
        /\ conn' = e.heap
        /\ hist' = [hist EXCEPT ![r] = Remember(@, "connect")]
        /\ stack' = Append(Mark(stack, r, "none"),
                           [res |-> r, handle |-> e.ret, phase |-> "entered",
                            exc |-> "none", seen |-> "unset", log |-> e.calls,
                            lostBy |-> "none"])
    /\ lastOp' = [op |-> "connect", res |-> r, via |-> "with"]
    /\ UNCHANGED <<result, argVars, dictVars>>

\* The body starts; its first statement reads db.connected (src line 182).
BodyStart ==
    /\ stack # <<>>
    /\ Top.phase = "entered"
    /\ stack' = [stack EXCEPT ![Len(stack)] =
                    [Top EXCEPT !.phase = "body",
                                !.seen = IF conn[Top.handle].connected
                                         THEN "active" ELSE "inactive",
                                !.log = Append(Top.log, "body")]]
    /\ lastOp' = NoOp
    /\ UNCHANGED <<conn, hist, result, argVars, dictVars>>

\* The body runs off its end.
BodyReturn ==
    /\ stack # <<>>
    /\ Top.phase = "body"
    /\ stack' = [stack EXCEPT ![Len(stack)].phase = "returned"]
    /\ lastOp' = NoOp
    /\ UNCHANGED <<conn, hist, result, argVars, dictVars>>

\* The body raises f (its own failure, or one a nested with-statement let through).
BodyRaise(f) ==
    /\ stack # <<>>
    /\ Top.phase = "body"
    /\ stack' = [stack EXCEPT ![Len(stack)] = [Top EXCEPT !.phase = "raised", !.exc = f]]
    /\ lastOp' = NoOp
    /\ UNCHANGED <<conn, hist, result, argVars, dictVars>>

\* The with-statement ends: r.__exit__(...) runs, and the failure, if any, is
\* re-raised unless __exit__ returned a true value.
WithExit ==
    /\ stack # <<>>
    /\ Top.phase \in {"returned", "raised"}
    /\ LET f == Top
           x == exit(f.res, f.exc)
           raised == f.exc # "none" /\ ~x.ret
       IN
        /\ conn' = x.heap
        /\ hist' = [hist EXCEPT ![f.res] = Remember(@, "disconnect")]
        /\ stack' = Mark(SubSeq(stack, 1, Len(stack) - 1), f.res, "with")
        /\ result' = [kind |-> IF raised THEN "raised" ELSE "returned",
                      exc |-> IF raised THEN f.exc ELSE "none",
                      bodyExc |-> f.exc,
                      res |-> f.res,
                      handle |-> f.handle,
                      seen |-> f.seen,
                      log |-> f.log \o x.calls,
                      active |-> conn'[f.res].connected]
        /\ lastOp' = [op |-> "disconnect", res |-> f.res, via |-> "with"]
    /\ UNCHANGED <<argVars, dictVars>>

(***************************************************************************)
(* dangerous_default_argument / safe_default_argument.  List objects live  *)
(* in the store lists; target_list is {} when the argument is left out and *)
(* {id} when list id is passed.                                            *)
(***************************************************************************)
\* The list `[]` of `target_list=[]`, built once when the def statement runs.
DefaultList == 1

\* dangerous_default_argument with a None default and a new list per call.
dangerous_fresh(item, target_list) ==
    LET heap == IF target_list = {} THEN Append(lists, <<>>) ELSE lists
        t    == IF target_list = {} THEN Len(heap) ELSE CHOOSE i \in target_list : TRUE
    IN  [heap |-> [heap EXCEPT ![t] = Append(@, item)], ret |-> t]

dangerous_default_argument(item, target_list) ==
    LET t == IF target_list = {} THEN DefaultList ELSE CHOOSE i \in target_list : TRUE
    IN  [heap |-> [lists EXCEPT ![t] = Append(@, item)], ret |-> t]

safe_default_argument(item, target_list) ==
    LET heap == IF target_list = {} THEN Append(lists, <<>>) ELSE lists
        t    == IF target_list = {} THEN Len(heap) ELSE CHOOSE i \in target_list : TRUE
    IN  [heap |-> [heap EXCEPT ![t] = Append(@, item)], ret |-> t]

\* What a caller can pass as target_list: nothing, or a list returned to it.
ArgChoices == {{}} \cup {{i} : i \in known}

CallDangerous(item, arg) ==
    /\ ncalls < MaxCalls
    /\ LET c == dangerous_default_argument(item, arg) IN
        /\ lists' = c.heap
        /\ ret' = [fn |-> "dangerous", item |-> item, id |-> c.ret,
                   fresh |-> c.ret \notin 1..Len(lists)]
        /\ known' = known \cup {c.ret}
    /\ dangerItems' = IF arg = {} THEN Append(dangerItems, item) ELSE dangerItems
    /\ explicitUsed' = (explicitUsed \/ arg # {})
    /\ ncalls' = ncalls + 1
    /\ UNCHANGED <<connVars, dictVars>>

CallSafe(item, arg) ==
    /\ ncalls < MaxCalls
    /\ LET c == safe_default_argument(item, arg) IN
        /\ lists' = c.heap
        /\ ret' = [fn |-> "safe", item |-> item, id |-> c.ret,
                   fresh |-> c.ret \notin 1..Len(lists)]
        /\ known' = known \cup {c.ret}
    /\ explicitUsed' = (explicitUsed \/ arg # {})
    /\ ncalls' = ncalls + 1
    /\ UNCHANGED <<dangerItems, connVars, dictVars>>

(***************************************************************************)
(* lbyl_approach / eafp_approach over a plain dict with hashable keys.     *)
(* A call yields its outcome (a value returned or an exception raised)     *)
(* and the dictionary as the call leaves it.                               *)
(***************************************************************************)
PyNone == [t |-> "NoneType", v |-> 0]

PyInt(n) == [t |-> "int", v |-> n]

Vals == {PyInt(n) : n \in 1..MaxInt} \cup {PyNone}

Dicts == UNION {[D -> Vals] : D \in SUBSET Keys}

Return(v) == [kind |-> "return", val |-> v, exc |-> "none"]

Raise(e) == [kind |-> "raise", val |-> PyNone, exc |-> e]

Pending == [kind |-> "pending", val |-> PyNone, exc |-> "none"]

\* `key in data`
contains(d, k) == k \in DOMAIN d

\* `data[key]`
getitem(d, k) == IF k \in DOMAIN d THEN Return(d[k]) ELSE Raise("KeyError")

lbyl_approach(d, k) ==
    [out |-> IF contains(d, k) THEN getitem(d, k) ELSE Return(PyNone), data |-> d]

\* eafp_approach whose except clause names another exception.
eafp_wrong_except(d, k) ==
    LET g == getitem(d, k)
    IN  [out |-> IF g.kind = "raise" /\ g.exc = "IndexError" THEN Return(PyNone) ELSE g,
         data |-> d]

eafp_approach(d, k) ==
    LET g == getitem(d, k)
    IN  [out |-> IF g.kind = "raise" /\ g.exc = "KeyError" THEN Return(PyNone) ELSE g,
         data |-> d]

CallLbyl ==
    /\ lbylRes = Pending
    /\ LET c == lbyl_approach(data, key) IN
        /\ lbylRes' = c.out
        /\ data' = c.data
    /\ UNCHANGED <<data0, key, eafpRes, connVars, argVars>>

CallEafp ==
    /\ eafpRes = Pending
    /\ LET c == eafp_approach(data, key) IN
        /\ eafpRes' = c.out
        /\ data' = c.data
    /\ UNCHANGED <<data0, key, lbylRes, connVars, argVars>>

ConnInit ==
    /\ conn \in {[r \in Refs |-> DbInit(n[r])] : n \in [Refs -> Names]}
    /\ hist = [r \in Refs |-> <<>>]
    /\ stack = <<>>
    /\ result = NoResult
    /\ lastOp = NoOp

ArgIdle ==
    /\ lists = <<<<>>>>
    /\ known = {}
    /\ ret = [fn |-> "none", item |-> 1, id |-> DefaultList, fresh |-> FALSE]
    /\ dangerItems = <<>>
    /\ explicitUsed = FALSE
    /\ ncalls = 0

DictIdle ==
    /\ data = <<>>
    /\ data0 = <<>>
    /\ key = "a"
    /\ lbylRes = Pending
    /\ eafpRes = Pending

Init == ConnInit /\ ArgIdle /\ DictIdle

Next ==
    \/ \E r \in Refs : CallConnect(r)
    \/ \E r \in Refs : CallDisconnect(r)
    \/ \E r \in Refs : WithEnter(r)
    \/ BodyStart
    \/ BodyReturn
    \/ \E f \in Failures : BodyRaise(f)
    \/ WithExit

Spec == Init /\ [][Next]_vars

\* The objects of the other demos at rest.
ConnIdle ==
    /\ conn = [r \in Refs |-> DbInit("my_database")]
    /\ hist = [r \in Refs |-> <<>>]
    /\ stack = <<>>
    /\ result = NoResult
    /\ lastOp = NoOp

InitArgs == ConnIdle /\ ArgIdle /\ DictIdle

NextArgs ==
    \/ \E item \in Items : \E arg \in ArgChoices : CallDangerous(item, arg)
    \/ \E item \in Items : \E arg \in ArgChoices : CallSafe(item, arg)

SpecArgs == InitArgs /\ [][NextArgs]_vars

InitLookup ==
    /\ ConnIdle
    /\ ArgIdle
    /\ data \in Dicts
    /\ data0 = data
    /\ key \in Keys
    /\ lbylRes = Pending
    /\ eafpRes = Pending

NextLookup == CallLbyl \/ CallEafp

SpecLookup == InitLookup /\ [][NextLookup]_vars
(***************************************************************************)
(* Properties of DatabaseConnection and the with-statement (under Spec).   *)
(***************************************************************************)
Last(h) == h[Len(h)]

Count(h, op) == Cardinality({i \in 1..Len(h) : h[i] = op})

Protocol == <<"connect", "body", "disconnect">>

\* C1: after any sequence of connect/disconnect calls on a fresh object,
\* the empty one included, connected is true exactly when the sequence is
\* non-empty and its last call was connect.
C1_ActiveIffLastAcquire ==
    \A r \in Refs :
        conn[r].connected <=> (hist[r] # <<>> /\ Last(hist[r]) = "connect")

C1_Witness ==
    \E r, q \in Refs :
        /\ hist[r] = <<"connect", "disconnect">> /\ ~conn[r].connected
        /\ hist[q] = <<"disconnect", "connect">> /\ conn[q].connected

\* C2: a with-statement whose body returned normally called connect once,
\* then ran the body, then called disconnect once, and connected is false
\* when it returns.
C2_NormalPath ==
    (result.kind # "none" /\ result.bodyExc = "none") =>
        /\ result.kind = "returned"
        /\ result.log = Protocol
        /\ Count(result.log, "connect") = 1
        /\ Count(result.log, "disconnect") = 1
        /\ ~result.active

C2_Witness ==
    /\ result.kind = "returned"
    /\ result.bodyExc = "none"
    /\ result.log = Protocol
    /\ ~conn[result.res].connected
    /\ lastOp.via = "with" /\ lastOp.op = "disconnect"

\* C3: when the body raised, disconnect was called exactly once, after the
\* body and before the failure reached the caller, who finds connected false.
C3_ReleaseBeforePropagation ==
    (result.kind # "none" /\ result.bodyExc # "none") =>
        /\ Count(result.log, "disconnect") = 1
        /\ Last(result.log) = "disconnect"
        /\ result.log = Protocol
        /\ ~result.active

C3_Witness ==
    /\ result.kind = "raised"
    /\ result.bodyExc = "ValueError"
    /\ Last(result.log) = "disconnect"
    /\ ~conn[result.res].connected
    /\ lastOp.via = "with" /\ lastOp.op = "disconnect"

\* C4: a failure the body raised leaves the with-statement as that same
\* failure, and the with-statement returns normally only if the body did.
C4_NeverSuppresses ==
    /\ result.bodyExc # "none" => (result.kind = "raised" /\ result.exc = result.bodyExc)
    /\ result.kind = "returned" => result.bodyExc = "none"
    /\ \A r \in Refs : \A f \in Failures \cup {"none"} : exit(r, f).ret = FALSE

C4_Witness ==
    /\ result.kind = "raised"
    /\ result.exc = "KeyError"
    /\ result.bodyExc = "KeyError"

\* C5: the body starts only after connect has completed, is handed the
\* object that was connected, and reads connected as true when it starts.
C5_BodyAfterAcquire ==
    \A i \in 1..Len(stack) :
        /\ stack[i].log[1] = "connect"
        /\ stack[i].phase = "entered" => stack[i].log = <<"connect">>
        /\ stack[i].phase # "entered" =>
            /\ stack[i].log = <<"connect", "body">>
            /\ stack[i].handle = stack[i].res
            /\ stack[i].seen = "active"

C5_Witness ==
    /\ Len(stack) = 1
    /\ stack[1].phase = "body"
    /\ stack[1].seen = "active"
    /\ stack[1].handle = stack[1].res

\* C6: disconnect can be called in every state, also twice in a row and on
\* an object never connected, and leaves connected false each time.
C6_ReleaseTotalIdempotent ==
    \A r \in Refs :
        /\ disconnect(r)[r].connected = FALSE
        /\ ~conn[r].connected => disconnect(r) = conn
        /\ CanRun => ENABLED CallDisconnect(r)
        /\ (hist[r] # <<>> /\ Last(hist[r]) = "disconnect") => ~conn[r].connected

C6_Witness ==
    \E r, q \in Refs :
        /\ hist[r] = <<"disconnect", "disconnect">> /\ ~conn[r].connected
        /\ hist[q] = <<"disconnect">> /\ ~conn[q].connected

\* C7: while a with-body is running, connected is false exactly when a
\* disconnect ran on the object after this with-statement's connect; with
\* no direct disconnect() call that is the __exit__ of an overlapping
\* with-statement over the same object.
C7_OverlapLosesConnection ==
    \A i \in 1..Len(stack) :
        stack[i].phase # "entered" =>
            /\ conn[stack[i].res].connected <=> stack[i].lostBy = "none"
            /\ (~conn[stack[i].res].connected /\ stack[i].lostBy # "direct")
                  => stack[i].lostBy = "with"

C7_Witness ==
    /\ stack # <<>>
    /\ Top.phase = "body"
    /\ Top.lostBy = "with"
    /\ ~conn[Top.res].connected
    /\ result.res = Top.res

\* C8: database_name never changes; connected changes only in a step that
\* calls connect or disconnect on that very object.
C8_FrameEffect ==
    [][\A r \in Refs :
          /\ conn'[r].database_name = conn[r].database_name
          /\ conn'[r].connected # conn[r].connected =>
                (lastOp'.op \in {"connect", "disconnect"} /\ lastOp'.res = r)]_vars

C8_Witness ==
    \E r \in Refs :
        /\ lastOp.op = "connect" /\ lastOp.res # r
        /\ conn[lastOp.res].connected
        /\ ~conn[r].connected
        /\ hist[r] = <<>>
        /\ conn[r].database_name # conn[lastOp.res].database_name
(***************************************************************************)
(* Properties of the default-argument functions (under SpecArgs).          *)
(***************************************************************************)
\* C9: as long as every call left target_list out, dangerous_default_argument
\* returns the one shared list holding the items of all its calls so far in
\* call order (length k after the k-th call), and safe_default_argument
\* returns a new list holding only the item of that call.
C9_SharedVersusFresh ==
    ~explicitUsed =>
        /\ lists[DefaultList] = dangerItems
        /\ ret.fn = "dangerous" =>
            /\ ret.id = DefaultList
            /\ ~ret.fresh
            /\ Len(lists[ret.id]) = Len(dangerItems)
            /\ Last(lists[ret.id]) = ret.item
        /\ ret.fn = "safe" =>
            /\ ret.fresh
            /\ ret.id # DefaultList
            /\ lists[ret.id] = <<ret.item>>
        /\ \A i \in known \ {DefaultList} : Len(lists[i]) <= 1

C9_Witness ==
    /\ ~explicitUsed
    /\ dangerItems = <<1, 2>>
    /\ lists[DefaultList] = <<1, 2>>
    /\ ret.fn = "safe"
    /\ lists[ret.id] = <<2>>

(***************************************************************************)
(* Properties of the two lookups (under SpecLookup).                       *)
(***************************************************************************)
Expected == IF key \in DOMAIN data0 THEN Return(data0[key]) ELSE Return(PyNone)

\* C10: lbyl_approach and eafp_approach give the same result, the stored
\* value for a key that is present and None for one that is absent; no
\* exception escapes and the dictionary is left as it was.
C10_LookupsAgree ==
    /\ lbylRes # Pending => lbylRes = Expected
    /\ eafpRes # Pending => eafpRes = Expected
    /\ (lbylRes # Pending /\ eafpRes # Pending) => lbylRes = eafpRes
    /\ data = data0

C10_Witness ==
    /\ lbylRes # Pending
    /\ eafpRes # Pending
    /\ key = "z"
    /\ DOMAIN data = {"a", "b"}
    /\ data["a"] = PyInt(1)
    /\ data["b"] = PyInt(2)
    /\ eafpRes = Return(PyNone)
====
